---- MODULE Spec2Model ----
(***************************************************************************)
(* Model of app.py, the Streamlit script of the SELF-DISCOVER growth       *)
(* strategy consultant: the completion call, the response clean-up and     *)
(* JSON parsing of the three normalizing flows, the ROI array extraction,  *)
(* and the session-state wiring of one script run.                         *)
(*                                                                         *)
(* Text is a sequence of lexemes.  A lexeme is one character ("{", "1",    *)
(* " ", ...) or a word: a run of letters in which none of the code's       *)
(* character tests (whitespace, backtick, digit, bracket, brace, quote)    *)
(* can fire, so that a key such as "impact" is one element.  The fence     *)
(* tag is spelled out letter by letter ("j","s","o","n").  The backtick    *)
(* character cannot be written inside a TLA+ string, so that one           *)
(* character is the lexeme named Backtick.                                 *)
(***************************************************************************)
EXTENDS Integers, Sequences, FiniteSets, TLC

(***************************************************************************)
(* Bounds of the model.                                                    *)
(***************************************************************************)
\* largest run of whitespace the completion service puts around a text
MaxPad == 1

(***************************************************************************)
(* str methods used by the script.                                         *)
(***************************************************************************)
\* the characters str.strip() removes
Whitespace == {" ", "\n", "\t", "\r"}

Digits == {"0", "1", "2", "3", "4", "5", "6", "7", "8", "9"}

DigitVal(c) ==
    CASE c = "0" -> 0 [] c = "1" -> 1 [] c = "2" -> 2 [] c = "3" -> 3
      [] c = "4" -> 4 [] c = "5" -> 5 [] c = "6" -> 6 [] c = "7" -> 7
      [] c = "8" -> 8 [] c = "9" -> 9

\* s[i:] , 1-based
Drop(s, i) == SubSeq(s, i, Len(s))

RECURSIVE Forward(_, _, _), Backward(_, _, _)
\* the first position at or after i whose character is not in cs
\* (Len(s) + 1 when there is none)
Forward(s, i, cs) ==
    IF i <= Len(s) /\ s[i] \in cs THEN Forward(s, i + 1, cs) ELSE i

\* the last position at or before i whose character is not in cs
\* (0 when there is none)
Backward(s, i, cs) ==
    IF i >= 1 /\ s[i] \in cs THEN Backward(s, i - 1, cs) ELSE i

\* str.strip()
strip(s) ==
    SubSeq(s, Forward(s, 1, Whitespace), Backward(s, Len(s), Whitespace))

\* str.startswith(p)
startswith(s, p) == Len(s) >= Len(p) /\ SubSeq(s, 1, Len(p)) = p

\* str.endswith(p)
endswith(s, p) == Len(s) >= Len(p) /\ SubSeq(s, Len(s) - Len(p) + 1, Len(s)) = p

\* positions at which p occurs in s
Occurrences(s, p) ==
    {i \in 1..(Len(s) - Len(p) + 1) : SubSeq(s, i, i + Len(p) - 1) = p}

\* str.replace(old, "", 1): the first occurrence of old is removed
replace_first(s, old) ==
    LET occ == Occurrences(s, old)
    IN  IF occ = {} THEN s
        ELSE LET i == CHOOSE k \in occ : \A j \in occ : k <= j
             IN  SubSeq(s, 1, i - 1) \o Drop(s, i + Len(old))

\* s[:-3]
drop_last3(s) == SubSeq(s, 1, Len(s) - 3)

\* the character U+0060
Backtick == "<backtick>"

FenceOpen == <<Backtick, Backtick, Backtick, "j", "s", "o", "n">>

FenceClose == <<Backtick, Backtick, Backtick>>

(***************************************************************************)
(* Python values.  Every value is a record of one shape:                   *)
(*   kind  "None" | "bool" | "int" | "float" | "str" | "list" | "dict"     *)
(*         | "item" (a key/value pair of a dict)                           *)
(*   text  the characters of a str, the key of an item                     *)
(*   n, e  a number is n / 10^e (e > 0 only for a float; a bool is 0 / 1)  *)
(*   kids  the elements of a list, the items of a dict, the value of an    *)
(*         item                                                            *)
(***************************************************************************)
Mk(kind, text, n, e, kids) ==
    [kind |-> kind, text |-> text, n |-> n, e |-> e, kids |-> kids]

None == Mk("None", <<>>, 0, 0, <<>>)

Str(text) == Mk("str", text, 0, 0, <<>>)

List(kids) == Mk("list", <<>>, 0, 0, kids)

\* bool(v), the truth test of "if v:"
Truthy(v) ==
    CASE v.kind = "None" -> FALSE
      [] v.kind \in {"bool", "int", "float"} -> v.n # 0
      [] v.kind = "str" -> v.text # <<>>
      [] OTHER -> v.kids # <<>>

\* "key in d"
HasKey(d, key) == \E i \in 1..Len(d.kids) : d.kids[i].text = key

\* d[key], for a dict that has the key
Get(d, key) ==
    LET i == CHOOSE k \in 1..Len(d.kids) : d.kids[k].text = key
    IN  d.kids[i].kids[1]

\* d[key] = v while a dict is built: a repeated key keeps its place and
\* takes the later value
Put(items, key, v) ==
    LET it == Mk("item", key, 0, 0, <<v>>)
    IN  IF \E i \in 1..Len(items) : items[i].text = key
        THEN [i \in 1..Len(items) |->
                 IF items[i].text = key THEN it ELSE items[i]]
        ELSE Append(items, it)

(***************************************************************************)
(* json.loads.  A parse step returns [ok, v, i]: whether a value was read  *)
(* at the position, the value, and the position after it.  Backslash       *)
(* escapes, exponents and NaN/Infinity are outside the modelled alphabet.  *)
(***************************************************************************)
Quote == "\""

\* the whitespace the JSON scanner skips
JsonWs == {" ", "\t", "\n", "\r"}

Fail == [ok |-> FALSE, v |-> None, i |-> 0]

Ok(v, i) == [ok |-> TRUE, v |-> v, i |-> i]

At(s, i, c) == i <= Len(s) /\ s[i] = c

SkipWs(s, i) == Forward(s, i, JsonWs)

\* first position at or after i that holds no digit
DigitsEnd(s, i) == Forward(s, i, Digits)

RECURSIVE DigitsToNat(_, _, _)
\* the number written by the digits s[a..b]
DigitsToNat(s, a, b) ==
    IF b < a THEN 0 ELSE 10 * DigitsToNat(s, a, b - 1) + DigitVal(s[b])

RECURSIVE Pow10(_)
Pow10(k) == IF k = 0 THEN 1 ELSE 10 * Pow10(k - 1)

RECURSIVE NormFloat(_, _)
\* 1.50 and 1.5 are the same float
NormFloat(n, e) ==
    IF e > 0 /\ n % 10 = 0 THEN NormFloat(n \div 10, e - 1)
    ELSE Mk("float", <<>>, n, e, <<>>)

\* NUMBER_RE = (-?(?:0|[1-9]\d*))(\.\d+)?
ParseNumber(s, i) ==
    LET neg == At(s, i, "-")
        a == IF neg THEN i + 1 ELSE i
        sign == IF neg THEN -1 ELSE 1
    IN  IF a > Len(s) \/ s[a] \notin Digits THEN Fail
        ELSE LET b == IF s[a] = "0" THEN a + 1 ELSE DigitsEnd(s, a)
                 frac == At(s, b, ".") /\ b + 1 <= Len(s) /\ s[b + 1] \in Digits
             IN  IF frac
                 THEN LET c == DigitsEnd(s, b + 1)
                          k == c - (b + 1)
                          m == DigitsToNat(s, a, b - 1) * Pow10(k)
                                 + DigitsToNat(s, b + 1, c - 1)
                      IN  Ok(NormFloat(sign * m, k), c)
                 ELSE Ok(Mk("int", <<>>, sign * DigitsToNat(s, a, b - 1), 0, <<>>), b)

RECURSIVE NextQuote(_, _)
\* the first quote at or after i (Len(s) + 1 when there is none)
NextQuote(s, i) ==
    IF i <= Len(s) /\ s[i] # Quote THEN NextQuote(s, i + 1) ELSE i

\* a string: the characters up to the next quote; a raw control character
\* inside a string is an error (strict mode)
ParseString(s, i) ==
    LET j == NextQuote(s, i + 1)
    IN  IF ~At(s, i, Quote) \/ j > Len(s) THEN Fail
        ELSE LET body == SubSeq(s, i + 1, j - 1)
             IN  IF \E k \in 1..Len(body) : body[k] \in {"\n", "\t", "\r"}
                 THEN Fail
                 ELSE Ok(Str(body), j + 1)

RECURSIVE ParseValue(_, _), ParseItems(_, _, _), ParseMembers(_, _, _)

\* scanner's _scan_once
ParseValue(s, i) ==
    IF i > Len(s) THEN Fail
    ELSE CASE s[i] = Quote -> ParseString(s, i)
           [] s[i] = "{" ->
                LET j == SkipWs(s, i + 1)
                IN  IF At(s, j, "}") THEN Ok(Mk("dict", <<>>, 0, 0, <<>>), j + 1)
                    ELSE ParseMembers(s, j, <<>>)
           [] s[i] = "[" ->
                LET j == SkipWs(s, i + 1)
                IN  IF At(s, j, "]") THEN Ok(List(<<>>), j + 1)
                    ELSE ParseItems(s, j, <<>>)
           [] s[i] = "null" -> Ok(None, i + 1)
           [] s[i] = "true" -> Ok(Mk("bool", <<>>, 1, 0, <<>>), i + 1)
           [] s[i] = "false" -> Ok(Mk("bool", <<>>, 0, 0, <<>>), i + 1)
           [] s[i] \in Digits \cup {"-"} -> ParseNumber(s, i)
           [] OTHER -> Fail

\* JSONArray: value (, value)* ]
ParseItems(s, i, acc) ==
    LET r == ParseValue(s, i)
    IN  IF ~r.ok THEN Fail
        ELSE LET k == SkipWs(s, r.i)
                 items == Append(acc, r.v)
             IN  IF At(s, k, "]") THEN Ok(List(items), k + 1)
                 ELSE IF At(s, k, ",") THEN ParseItems(s, SkipWs(s, k + 1), items)
                 ELSE Fail

\* JSONObject: "key" : value (, "key" : value)* }
ParseMembers(s, i, acc) ==
    LET key == ParseString(s, i)
    IN  IF ~key.ok THEN Fail
        ELSE LET c == SkipWs(s, key.i)
             IN  IF ~At(s, c, ":") THEN Fail
                 ELSE LET r == ParseValue(s, SkipWs(s, c + 1))
                      IN  IF ~r.ok THEN Fail
                          ELSE LET k == SkipWs(s, r.i)
                                   items == Put(acc, key.v.text, r.v)
                               IN  IF At(s, k, "}")
                                   THEN Ok(Mk("dict", <<>>, 0, 0, items), k + 1)
                                   ELSE IF At(s, k, ",")
                                   THEN ParseMembers(s, SkipWs(s, k + 1), items)
                                   ELSE Fail

\* json.loads(s): [ok |-> FALSE] stands for JSONDecodeError
json_loads(s) ==
    LET r == ParseValue(s, SkipWs(s, 1))
    IN  IF r.ok /\ SkipWs(s, r.i) = Len(s) + 1
        THEN [ok |-> TRUE, v |-> r.v]
        ELSE [ok |-> FALSE, v |-> None]

(***************************************************************************)
(* Response clean-up and parsing of the three normalizing flows.           *)
(***************************************************************************)
RECURSIVE replace_all(_, _)
\* str.replace(old, ""): every occurrence of old is removed
replace_all(s, old) ==
    IF Occurrences(s, old) = {} THEN s
    ELSE replace_all(replace_first(s, old), old)

\* clean_response with replace(marker, "") in place of
\* replace(marker, "", 1)
clean_response_replace_all(response) ==
    LET a == IF startswith(response, FenceOpen)
             THEN replace_all(response, FenceOpen) ELSE response
        b == IF endswith(a, FenceClose) THEN drop_last3(a) ELSE a
    IN  strip(b)

\* "Clean the response": the same four statements in
\* generate_implementation_plan, generate_competitive_analysis and the
\* Run Analysis handler
clean_response(response) ==
    LET a == IF startswith(response, FenceOpen)
             THEN replace_first(response, FenceOpen) ELSE response
        b == IF endswith(a, FenceClose) THEN drop_last3(a) ELSE a
    IN  strip(b)

\* try: json.loads(cleaned_response) / except json.JSONDecodeError
\* value is what the flow returns or stores, failed whether the except
\* branch ran
normalize(response) ==
    LET r == json_loads(clean_response(response))
    IN  [value |-> IF r.ok THEN r.v ELSE None, failed |-> ~r.ok]

(***************************************************************************)
(* calculate_roi_projection.                                               *)
(***************************************************************************)
\* the character class [\d\., ]
ArrayChars == Digits \cup {".", ",", " "}

\* the pattern \[[\d\., ]+\] tried at position i: the position of the
\* closing "]" of the match, 0 when the pattern does not match there
MatchEnd(s, i) ==
    LET j == Forward(s, i + 1, ArrayChars)
    IN  IF s[i] = "[" /\ j >= i + 2 /\ At(s, j, "]") THEN j ELSE 0

RECURSIVE SearchFrom(_, _)
\* the scan of re.search: the pattern is tried at i, i + 1, ...
SearchFrom(s, i) ==
    IF i > Len(s) THEN [found |-> FALSE, group |-> <<>>]
    ELSE IF MatchEnd(s, i) # 0
    THEN [found |-> TRUE, group |-> SubSeq(s, i, MatchEnd(s, i))]
    ELSE SearchFrom(s, i + 1)

\* re.match in place of re.search: the pattern is tried at the start only
re_match(response) ==
    IF response # <<>> /\ MatchEnd(response, 1) # 0
    THEN [found |-> TRUE, group |-> SubSeq(response, 1, MatchEnd(response, 1))]
    ELSE [found |-> FALSE, group |-> <<>>]

\* re.search(r'\[[\d\., ]+\]', response): the leftmost match, or no match
re_search(response) == SearchFrom(response, 1)

Float(n, e) == Mk("float", <<>>, n, e, <<>>)

\* [0.5, 1.0, 1.5, 2.0, 2.5, 3.0, 3.5, 4.0, 4.5, 5.0, 5.5, 6.0]
DefaultFallback ==
    List(<<Float(5, 1), Float(1, 0), Float(15, 1), Float(2, 0), Float(25, 1),
           Float(3, 0), Float(35, 1), Float(4, 0), Float(45, 1), Float(5, 0),
           Float(55, 1), Float(6, 0)>>)

\* what calculate_roi_projection returns for a response
roi_projection(response) ==
    LET match == re_search(response)
    IN  IF match.found
        THEN LET r == json_loads(match.group)
             IN  IF r.ok THEN r.v ELSE DefaultFallback
        ELSE DefaultFallback

(***************************************************************************)
(* What the rendering code demands of the values it subscripts.  A value   *)
(* that fails the demand raises KeyError or TypeError in the script run.   *)
(***************************************************************************)
Iterable(v) == v.kind \in {"list", "dict", "str"}

IntLike(v) == v.kind \in {"int", "bool"}

\* v is a dict and has every one of the keys
DictWith(v, keys) == v.kind = "dict" /\ \A k \in keys : HasKey(v, <<k>>)

\* "for x in v: x[k] ..." for the keys of a record
EachHas(v, keys) ==
    \/ v.kind \in {"dict", "str"} /\ ~Truthy(v)
    \/ v.kind = "list" /\ \A i \in 1..Len(v.kids) : DictWith(v.kids[i], keys)

\* the loops over data["prioritized_actions"]: action["action"],
\* impact + feasibility, '*' of a string by impact and by feasibility
ActionsRender(pa) ==
    /\ EachHas(pa, {"action", "impact", "feasibility"})
    /\ pa.kind = "list" =>
          \A i \in 1..Len(pa.kids) :
              /\ IntLike(Get(pa.kids[i], <<"impact">>))
              /\ IntLike(Get(pa.kids[i], <<"feasibility">>))

\* tabs[0] and tabs[1] down to the selectbox
ResultsRender(data) ==
    /\ DictWith(data, {"selected_modules", "adapted_structure",
                       "opportunity_gaps", "prioritized_actions"})
    /\ Iterable(Get(data, <<"selected_modules">>))
    /\ Get(data, <<"adapted_structure">>).kind = "dict"
    /\ Iterable(Get(data, <<"opportunity_gaps">>))
    /\ ActionsRender(Get(data, <<"prioritized_actions">>))

\* action_options = [action["action"] for action in data["prioritized_actions"]]
action_options(data) ==
    LET pa == Get(data, <<"prioritized_actions">>)
    IN  IF pa.kind = "list"
        THEN [i \in 1..Len(pa.kids) |-> Get(pa.kids[i], <<"action">>)]
        ELSE <<>>

\* tabs[2], the implementation plan
PlanRenders(plan) ==
    /\ DictWith(plan, {"thirty_day_plan", "sixty_day_plan", "ninety_day_plan",
                       "success_metrics", "resources_required",
                       "potential_challenges"})
    /\ \A k \in {"thirty_day_plan", "sixty_day_plan", "ninety_day_plan"} :
           EachHas(Get(plan, <<k>>), {"milestone", "details", "metrics"})
    /\ EachHas(Get(plan, <<"success_metrics">>),
               {"metric", "target", "tracking_method"})
    /\ EachHas(Get(plan, <<"resources_required">>),
               {"resource", "purpose", "estimated_cost"})
    /\ EachHas(Get(plan, <<"potential_challenges">>),
               {"challenge", "mitigation_strategy"})

\* tabs[2], the competitive analysis
AnalysisRenders(analysis) ==
    /\ DictWith(analysis, {"competitor_approaches", "market_benchmarks",
                           "competitive_advantage_opportunities"})
    /\ EachHas(Get(analysis, <<"competitor_approaches">>),
               {"competitor", "approach", "effectiveness"})
    /\ Iterable(Get(analysis, <<"market_benchmarks">>))
    /\ Iterable(Get(analysis, <<"competitive_advantage_opportunities">>))

(***************************************************************************)
(* Texts the completion service may return.  The documents follow the      *)
(* output shapes the prompts ask for.                                      *)
(***************************************************************************)
\* the JSON string literal of a word
K(w) == <<Quote, w, Quote>>

EmptyListAt(key) == K(key) \o <<":", "[", "]">>

ActionJson(name) ==
    <<"{">> \o K("action") \o <<":", " ">> \o K(name) \o <<",", " ">>
      \o K("impact") \o <<":", " ", "5", ",", " ">>
      \o K("feasibility") \o <<":", " ", "4", "}">>

\* the "Output Format" of the analysis prompt
StrategyJson(actions) ==
    <<"{">> \o EmptyListAt("selected_modules") \o <<",">>
      \o K("adapted_structure") \o <<":", "{", "}", ",">>
      \o EmptyListAt("opportunity_gaps") \o <<",", "\n">>
      \o K("prioritized_actions") \o <<":", "[">> \o actions \o <<"]", "}">>

StrategyA == StrategyJson(ActionJson("alpha") \o <<",", " ">> \o ActionJson("beta"))

StrategyB == StrategyJson(ActionJson("beta"))

\* the keys the implementation-plan prompt asks for, after a note whose
\* text holds the opening fence marker
ImplementationJson ==
    <<"{">> \o K("note") \o <<":", Quote>> \o FenceOpen \o <<Quote, ",">>
      \o EmptyListAt("thirty_day_plan") \o <<",">>
      \o EmptyListAt("sixty_day_plan") \o <<",">>
      \o EmptyListAt("ninety_day_plan") \o <<",">>
      \o EmptyListAt("success_metrics") \o <<",">>
      \o EmptyListAt("resources_required") \o <<",">>
      \o EmptyListAt("potential_challenges") \o <<"}">>

\* the keys the competitive-analysis prompt asks for
CompetitiveJson ==
    <<"{">> \o EmptyListAt("competitor_approaches") \o <<",">>
      \o EmptyListAt("market_benchmarks") \o <<",">>
      \o EmptyListAt("competitive_advantage_opportunities") \o <<"}">>

\* the decimal a.b followed by ", "
D(a, b) == <<a, ".", b, ",", " ">>

\* the example array of the ROI prompt
RoiExample ==
    <<"[">> \o D("1", "5") \o D("2", "3") \o D("3", "1") \o D("4", "0")
      \o D("5", "2") \o D("5", "8") \o D("6", "5") \o D("7", "1")
      \o D("7", "5") \o D("8", "0") \o D("8", "3") \o <<"8", ".", "5", "]">>

\* runs of whitespace of at most MaxPad characters
RECURSIVE PadsOf(_)
PadsOf(k) ==
    IF k = 0 THEN {<<>>}
    ELSE LET shorter == PadsOf(k - 1)
         IN  shorter \cup {Append(p, c) : p \in shorter, c \in {" ", "\n"}}

Pads == PadsOf(MaxPad)

\* a document inside a json fence, with whitespace p around the whole and
\* around the document
Fenced(doc, p) == p \o FenceOpen \o p \o doc \o p \o FenceClose \o p

Lead == <<"Here", " ", "is", " ", "the", " ", "result", ":", "\n">>

Trail == <<"\n", "Let", " ", "me", " ", "know", ".">>

\* texts in which nothing parses as JSON
ProseTexts == {<<"Sorry", ",", " ", "no", " ", "plan", ".">>, <<"{", "oops">>}

\* the ways a completion wraps the JSON object it was asked for: bare,
\* fenced, with prose before it, after it, or both
Wrapped(doc) ==
    {doc, Lead \o doc, doc \o Trail, Lead \o doc \o Trail}
      \cup {Fenced(doc, p) : p \in Pads}

\* a JSON document that is not of the container type asked for: a number,
\* bare and fenced
ScalarTexts == {<<"5">>} \cup {Fenced(<<"5">>, p) : p \in Pads}

\* the example array in prose that has no bracket of its own
RoiInProse ==
    {RoiExample, Lead \o RoiExample, RoiExample \o Trail,
     Lead \o RoiExample \o Trail}

\* texts with other bracketed runs
RoiOddTexts ==
    {<<"See", " ", "[", "1", "]", ":", " ">> \o RoiExample,
     <<"[", "1", ".", "]", " ">> \o RoiExample,
     <<"Empty", ":", " ", "[", " ", "]">>}

\* message.content of a completion, for the prompt of each flow; the
\* analysis may also come back as an object of another shape
Contents(flow) ==
    CASE flow = "analysis" ->
           Wrapped(StrategyA) \cup {StrategyB, CompetitiveJson}
             \cup ScalarTexts \cup ProseTexts
      [] flow = "plan" ->
           Wrapped(ImplementationJson) \cup ScalarTexts \cup ProseTexts
      [] flow = "competitive" ->
           Wrapped(CompetitiveJson) \cup ScalarTexts \cup ProseTexts
      [] flow = "roi" ->
           RoiInProse \cup RoiOddTexts \cup ProseTexts
             \cup {Fenced(RoiExample, p) : p \in Pads}

Flows == {"analysis", "plan", "competitive", "roi"}

(***************************************************************************)
(* The script.  One script run is the chain                                *)
(*   Rerun, [AnalysisCall], Display, [PlanCall, RoiCall | CompCall], Render *)
(* cut short where the run stops or raises.  Every call of call_openai is  *)
(* a step of its own, since its outcome is the service's choice.           *)
(***************************************************************************)
VARIABLES
    api_key,                \* client.api_key is set (fixed for the session)
    results,                \* st.session_state.results
    selected_action,        \* st.session_state.selected_action
    implementation_plan,    \* st.session_state.implementation_plan
    competitive_analysis,   \* st.session_state.competitive_analysis
    roi_data,               \* st.session_state.roi_data
    pc,                     \* where the running script is; "idle" between runs
    pressed,                \* the button that is True in this run
    selected,               \* the script's variable selected_action
    response,               \* the text the latest call_openai returned
    requests,               \* requests sent to the service in this run
    screen,                 \* error, warning, code and exception elements shown
    outcome,                \* how the latest run ended
    pre,                    \* session state when the script was last idle
    generated_for           \* per artifact, the action text of the request
                            \* that produced the stored value

vars == <<api_key, results, selected_action, implementation_plan,
          competitive_analysis, roi_data, pc, pressed, selected, response,
          requests, screen, outcome, pre, generated_for>>

slots == <<results, selected_action, implementation_plan,
           competitive_analysis, roi_data>>

Session ==
    [results |-> results, selected_action |-> selected_action,
     implementation_plan |-> implementation_plan,
     competitive_analysis |-> competitive_analysis, roi_data |-> roi_data]

Element(kind, body) == [kind |-> kind, body |-> body]

KeyError == Element("error", <<"OPENAI_API_KEY not set!">>)

TaskError == Element("error", <<"Please enter a business challenge above.">>)

Uncaught == Element("exception", <<>>)

ParseWarning(flow) ==
    Element("warning",
            CASE flow = "analysis" ->
                   <<"Response wasn't valid JSON - showing raw output:">>
              [] flow = "plan" ->
                   <<"Implementation plan response wasn't valid JSON.">>
              [] flow = "competitive" ->
                   <<"Competitive analysis response wasn't valid JSON.">>)

\* call_openai without the test of client.api_key
call_openai_unchecked(prompt) ==
    {[t |-> "raise", text |-> <<>>]}
      \cup {[t |-> "text", text |-> strip(c)] : c \in Contents(prompt)}

\* call_openai: the outcomes of one call.  "stop" is st.error + st.stop()
\* before the request is made; "raise" is an exception of
\* client.chat.completions.create (transport, quota, model); "text" is
\* message.content.strip()
call_openai(prompt) ==
    IF ~api_key THEN {[t |-> "stop", text |-> <<>>]}
    ELSE {[t |-> "raise", text |-> <<>>]}
           \cup {[t |-> "text", text |-> strip(c)] : c \in Contents(prompt)}

\* Sent with one retry of a request that raised
Sent_retry(o, flow) ==
    IF o.t = "stop" THEN requests
    ELSE IF o.t = "raise"
    THEN requests \o <<[flow |-> flow, action |-> selected],
                       [flow |-> flow, action |-> selected]>>
    ELSE Append(requests, [flow |-> flow, action |-> selected])

\* the request goes out unless the call stopped before it
Sent(o, flow) ==
    IF o.t = "stop" THEN requests
    ELSE Append(requests, [flow |-> flow, action |-> selected])

\* the script run is over: st.stop(), an uncaught exception, or the last
\* line of the script
Finish(how) ==
    /\ pc' = "idle"
    /\ pressed' = "none"
    /\ selected' = None
    /\ response' = <<>>
    /\ outcome' = how
    /\ pre' = [results |-> results', selected_action |-> selected_action',
               implementation_plan |-> implementation_plan',
               competitive_analysis |-> competitive_analysis',
               roi_data |-> roi_data']

\* the script ends a call that did not return
Abort(o) ==
    /\ screen' = Append(screen, IF o.t = "stop" THEN KeyError ELSE Uncaught)
    /\ Finish(IF o.t = "stop" THEN "stopped" ELSE "exception")

\* no request stands behind an artifact that is None
NoAction == Mk("absent", <<>>, 0, 0, <<>>)

\* the action text of the request whose response gave the value just stored
Origin(value, rs) == IF value = None THEN NoAction ELSE rs[Len(rs)].action

\* the record of origins after a step: an artifact the step assigned takes
\* the action of the request just sent, an artifact that is None afterwards
\* has no origin, any other keeps the one it had
Origins(assigned, plan, competitive, roi, rs) ==
    LET of(name, value) ==
            IF name \in assigned THEN Origin(value, rs)
            ELSE IF value = None THEN NoAction
            ELSE generated_for[name]
    IN  [implementation_plan |-> of("implementation_plan", plan),
         competitive_analysis |-> of("competitive_analysis", competitive),
         roi_data |-> of("roi_data", roi)]

\* the generation buttons are on the page
ButtonsRendered == Truthy(results) /\ ResultsRender(results)

Init ==
    /\ api_key \in BOOLEAN
    /\ results = None
    /\ implementation_plan = None
    /\ competitive_analysis = None
    /\ selected_action = None
    /\ roi_data = None
    /\ pc = "idle"
    /\ pressed = "none"
    /\ selected = None
    /\ response = <<>>
    /\ requests = <<>>
    /\ screen = <<>>
    /\ outcome = "none"
    /\ pre = [results |-> None, selected_action |-> None,
              implementation_plan |-> None, competitive_analysis |-> None,
              roi_data |-> None]
    /\ generated_for = [implementation_plan |-> NoAction,
                        competitive_analysis |-> NoAction,
                        roi_data |-> NoAction]

\* a widget event starts a script run: at most one button is True, task is
\* the text area being non-empty
Rerun ==
    /\ pc = "idle"
    /\ \E button \in {"none", "run", "plan", "competitive"}, task \in BOOLEAN :
          /\ button \in {"plan", "competitive"} => ButtonsRendered
          /\ pressed' = button
          /\ screen' = IF button = "run" /\ ~task THEN <<TaskError>> ELSE <<>>
          /\ pc' = IF button = "run" /\ task THEN "analysis" ELSE "display"
    /\ requests' = <<>>
    /\ outcome' = "running"
    /\ pre' = Session
    /\ UNCHANGED <<api_key, slots, selected, response, generated_for>>

\* if run_button: ... raw = call_openai(prompt, model=model_choice), the
\* clean-up and the assignment of st.session_state.results
AnalysisCall ==
    /\ pc = "analysis"
    /\ UNCHANGED <<api_key, selected_action, implementation_plan,
                   competitive_analysis, roi_data, generated_for>>
    /\ \E o \in call_openai("analysis") :
          /\ requests' = Sent(o, "analysis")
          /\ IF o.t = "text"
             THEN LET r == normalize(o.text)
                  IN  /\ results' = r.value
                      /\ screen' = IF r.failed
                                   THEN screen \o <<ParseWarning("analysis"),
                                                    Element("code", o.text)>>
                                   ELSE screen
                      /\ response' = o.text
                      /\ pc' = "display"
                      /\ UNCHANGED <<pressed, selected, outcome, pre>>
             ELSE UNCHANGED results /\ Abort(o)

\* what st.selectbox may return: an option, None when there is none; a run
\* started by a generation button returns the option the box showed
SelectboxValues(data) ==
    LET options == action_options(data)
        all == {options[i] : i \in 1..Len(options)}
    IN  IF all = {} THEN {None}
        ELSE IF pressed \in {"plan", "competitive"} /\ selected_action \in all
        THEN {selected_action}
        ELSE all

\* handle_selection without the reset of roi_data
handle_selection_keeps_roi(choice) ==
    IF choice # selected_action
    THEN /\ selected_action' = choice
         /\ implementation_plan' = None
         /\ competitive_analysis' = None
         /\ UNCHANGED roi_data
    ELSE UNCHANGED <<selected_action, implementation_plan,
                     competitive_analysis, roi_data>>

\* handle_selection that stores the choice and resets nothing
handle_selection_stores_only(choice) ==
    /\ selected_action' = choice
    /\ UNCHANGED <<implementation_plan, competitive_analysis, roi_data>>

\* if selected_action != st.session_state.selected_action: ...
handle_selection(choice) ==
    IF choice # selected_action
    THEN /\ selected_action' = choice
         /\ implementation_plan' = None
         /\ competitive_analysis' = None
         /\ roi_data' = None
    ELSE UNCHANGED <<selected_action, implementation_plan,
                     competitive_analysis, roi_data>>

\* if st.session_state.results: tabs[0], tabs[1], the selectbox and the
\* handling of a changed selection
Display ==
    /\ pc = "display"
    /\ IF ~Truthy(results)
       THEN /\ UNCHANGED <<slots, requests, screen, generated_for>>
            /\ Finish("done")
       ELSE IF ~ResultsRender(results)
       THEN /\ screen' = Append(screen, Uncaught)
            /\ UNCHANGED <<slots, requests, generated_for>>
            /\ Finish("exception")
       ELSE \E choice \in SelectboxValues(results) :
               /\ selected' = choice
               /\ handle_selection(choice)
               /\ generated_for' = Origins({}, implementation_plan',
                                           competitive_analysis', roi_data',
                                           requests)
               /\ pc' = CASE pressed = "plan" -> "plan"
                          [] pressed = "competitive" -> "competitive"
                          [] OTHER -> "render"
               /\ UNCHANGED <<results, pressed, response, requests, screen,
                              outcome, pre>>
    /\ UNCHANGED api_key

\* st.session_state.implementation_plan =
\*     generate_implementation_plan(data, selected_action)
PlanCall ==
    /\ pc = "plan"
    /\ UNCHANGED <<api_key, results, selected_action, competitive_analysis,
                   roi_data>>
    /\ \E o \in call_openai("plan") :
          /\ requests' = Sent(o, "plan")
          /\ IF o.t = "text"
             THEN LET r == normalize(o.text)
                  IN  /\ implementation_plan' = r.value
                      /\ generated_for' =
                             Origins({"implementation_plan"}, r.value,
                                     competitive_analysis, roi_data, requests')
                      /\ screen' = IF r.failed
                                   THEN Append(screen, ParseWarning("plan"))
                                   ELSE screen
                      /\ response' = o.text
                      /\ pc' = "roi"
                      /\ UNCHANGED <<pressed, selected, outcome, pre>>
             ELSE UNCHANGED <<implementation_plan, generated_for>> /\ Abort(o)

\* st.session_state.roi_data = calculate_roi_projection(selected_action)
RoiCall ==
    /\ pc = "roi"
    /\ UNCHANGED <<api_key, results, selected_action, implementation_plan,
                   competitive_analysis>>
    /\ \E o \in call_openai("roi") :
          /\ requests' = Sent(o, "roi")
          /\ IF o.t = "text"
             THEN /\ roi_data' = roi_projection(o.text)
                  /\ generated_for' =
                         Origins({"roi_data"}, implementation_plan,
                                 competitive_analysis, roi_data', requests')
                  /\ response' = o.text
                  /\ pc' = "render"
                  /\ UNCHANGED <<pressed, selected, outcome, pre, screen>>
             ELSE UNCHANGED <<roi_data, generated_for>> /\ Abort(o)

\* st.session_state.competitive_analysis =
\*     generate_competitive_analysis(industry, selected_action)
CompCall ==
    /\ pc = "competitive"
    /\ UNCHANGED <<api_key, results, selected_action, implementation_plan,
                   roi_data>>
    /\ \E o \in call_openai("competitive") :
          /\ requests' = Sent(o, "competitive")
          /\ IF o.t = "text"
             THEN LET r == normalize(o.text)
                  IN  /\ competitive_analysis' = r.value
                      /\ generated_for' =
                             Origins({"competitive_analysis"},
                                     implementation_plan, r.value, roi_data,
                                     requests')
                      /\ screen' = IF r.failed
                                   THEN Append(screen, ParseWarning("competitive"))
                                   ELSE screen
                      /\ response' = o.text
                      /\ pc' = "render"
                      /\ UNCHANGED <<pressed, selected, outcome, pre>>
             ELSE UNCHANGED <<competitive_analysis, generated_for>> /\ Abort(o)

\* tabs[2] and the footer: the stored plan and analysis are subscripted
Render ==
    /\ pc = "render"
    /\ LET ok == /\ Truthy(implementation_plan) => PlanRenders(implementation_plan)
                 /\ Truthy(competitive_analysis) =>
                        AnalysisRenders(competitive_analysis)
       IN  /\ screen' = IF ok THEN screen ELSE Append(screen, Uncaught)
           /\ UNCHANGED <<slots, requests, generated_for>>
           /\ Finish(IF ok THEN "done" ELSE "exception")
    /\ UNCHANGED api_key

Next ==
    \/ Rerun
    \/ AnalysisCall
    \/ Display
    \/ PlanCall
    \/ RoiCall
    \/ CompCall
    \/ Render

Spec == Init /\ [][Next]_vars

(***************************************************************************)
(* Properties.                                                             *)
(***************************************************************************)
Cleared ==
    /\ implementation_plan = None
    /\ competitive_analysis = None
    /\ roi_data = None

CallPcs == {"analysis", "plan", "roi", "competitive"}

\* the screen shows an element of the kind
Shows(kind) == \E i \in 1..Len(screen) : screen[i].kind = kind

\* C1: in a script run that displays the results, when the selectbox
\* returns an action other than the stored selected_action, the step that
\* leads to the generation buttons stores the chosen action and empties
\* implementation_plan, competitive_analysis and roi_data; the buttons are
\* handled with the stored action equal to the chosen one.
C1_SelectionChangeClears ==
    [][(pc = "display" /\ pc' # "idle") =>
          /\ selected_action' = selected'
          /\ selected' # selected_action => Cleared']_vars

\* C1 happens: the selection changed in this run while all three artifacts
\* were stored, and they are empty where the buttons are handled
C1_Witness ==
    /\ pc = "render"
    /\ selected_action = selected
    /\ selected # pre.selected_action
    /\ pre.implementation_plan # None
    /\ pre.competitive_analysis # None
    /\ pre.roi_data # None
    /\ Cleared

\* C2: when a completion call raises, every session-state slot holds the
\* value it had when the button was pressed; in particular a failing ROI
\* call leaves implementation_plan as it was before the press.
C2_ServiceErrorLeavesSession ==
    [][(pc \in CallPcs /\ outcome' = "exception") => Session' = pre]_vars

\* C3: without a credential every call of call_openai shows the
\* configuration error and stops the run, no request is ever sent and no
\* slot of the session state changes.
C3_NoCredentialNoRequest ==
    [][~api_key =>
          /\ requests' = <<>>
          /\ Session' = pre
          /\ pc \in CallPcs =>
                /\ pc' = "idle"
                /\ outcome' = "stopped"
                /\ screen' = Append(screen, KeyError)]_vars

\* C3 happens: a run pressed Run Analysis with a task and no credential
\* and was stopped at the call
C3_Witness ==
    /\ ~api_key
    /\ pc = "idle"
    /\ outcome = "stopped"
    /\ screen = <<KeyError>>
    /\ requests = <<>>

\* the value a normalizing flow has just stored, in the state that follows
\* its call
JustNormalized ==
    \/ pc = "display" /\ pressed = "run" /\ requests # <<>>
    \/ pc = "roi"
    \/ pc = "render" /\ pressed = "competitive"

Artifact ==
    CASE pc = "display" -> results
      [] pc = "roi" -> implementation_plan
      [] OTHER -> competitive_analysis

\* the documents the flows receive inside a fence
FencedDocs == {StrategyA, ImplementationJson, CompetitiveJson, <<"5">>}

\* C4: for a response made of the opening json fence, a valid JSON
\* document and the closing fence, the clean-up of the analysis, plan and
\* competitive flows leaves exactly the document (only the first marker
\* and the last three characters go), and the flow stores the document's
\* parsed value without a parse warning.
C4_FencedJsonParses ==
    JustNormalized =>
        \A d \in FencedDocs, p \in Pads :
            response = strip(Fenced(d, p)) =>
                /\ clean_response(response) = d
                /\ json_loads(d).ok
                /\ Artifact = json_loads(d).v
                /\ ~Shows("warning")

\* C4 happens: the plan flow received the fenced plan, whose note holds a
\* second opening marker, with whitespace inside the fence, and stored it
C4_Witness ==
    /\ pc = "roi"
    /\ \E p \in Pads \ {<<>>} : response = strip(Fenced(ImplementationJson, p))
    /\ Truthy(implementation_plan)
    /\ HasKey(implementation_plan, <<"note">>)
    /\ Get(implementation_plan, <<"note">>) = Str(FenceOpen)

\* the ways prose surrounds an object
Embedded(d) == {Lead \o d, d \o Trail, Lead \o d \o Trail}

\* C5: for a response that is a valid JSON object with prose before it,
\* after it or both, the flow recovers the object: it stores the object's
\* parsed value and reports no parse failure.
C5_EmbeddedObjectRecovered ==
    JustNormalized =>
        \A d \in {StrategyA, ImplementationJson, CompetitiveJson} :
            \A t \in Embedded(d) :
                response = strip(t) =>
                    Artifact = json_loads(d).v /\ ~Shows("warning")

\* C6: for a response in which nothing is JSON, each normalizing flow goes
\* on without raising, leaves its artifact empty, warns, and shows the raw
\* text unchanged.
C6_UnparsedShowsRawText ==
    JustNormalized =>
        \A t \in ProseTexts :
            response = strip(t) =>
                /\ Artifact = None
                /\ Shows("warning")
                /\ \E i \in 1..Len(screen) : screen[i] = Element("code", response)

\* the state that follows the ROI call
AfterRoi == pc = "render" /\ pressed = "plan"

\* [1.5, 2.3, 3.1, 4.0, 5.2, 5.8, 6.5, 7.1, 7.5, 8.0, 8.3, 8.5]
ExampleValues ==
    List(<<Float(15, 1), Float(23, 1), Float(31, 1), Float(4, 0), Float(52, 1),
           Float(58, 1), Float(65, 1), Float(71, 1), Float(75, 1), Float(8, 0),
           Float(83, 1), Float(85, 1)>>)

\* s holds no "[", one or more of digit . , space, "]"
NoBracketRun(s) == \A i \in 1..Len(s) : MatchEnd(s, i) = 0

\* the example array stands in s and no bracketed run starts before it
ExampleIsLeftmostRun(s) ==
    \E i \in Occurrences(s, RoiExample) : \A k \in 1..(i - 1) : MatchEnd(s, k) = 0

\* C7 as stated: whenever the example array stands anywhere in the response
\* the projection is that array, and a response without a bracketed array
\* gives the fixed fallback.
C7_ExampleAnywhere ==
    AfterRoi =>
        /\ Occurrences(response, RoiExample) # {} => roi_data = ExampleValues
        /\ NoBracketRun(response) => roi_data = DefaultFallback

\* C7 (amended): when the example array is the leftmost bracketed run of
\* digits, dots, commas and spaces in the response the projection is
\* exactly that array, and a response without any such run gives the fixed
\* fallback.
C7_LeftmostArray ==
    AfterRoi =>
        /\ ExampleIsLeftmostRun(response) => roi_data = ExampleValues
        /\ NoBracketRun(response) => roi_data = DefaultFallback

\* C7 happens: the array came back with prose on both sides and was stored
C7_Witness ==
    /\ AfterRoi
    /\ response = strip(Lead \o RoiExample \o Trail)
    /\ roi_data = ExampleValues

\* C8: roi_data is empty or holds exactly 12 monthly values.
C8_RoiHasTwelve ==
    roi_data = None \/ (roi_data.kind = "list" /\ Len(roi_data.kids) = 12)

\* Run Analysis was pressed with an empty text area
EmptyTask == screen # <<>> /\ screen[1] = TaskError

RunEnds == pc # "idle" /\ pc' = "idle"

FlowsOf(rs) == [i \in 1..Len(rs) |-> rs[i].flow]

C10_ScalarIsParseFailure ==
    JustNormalized =>
        \A t \in ScalarTexts :
            response = strip(t) => Artifact = None /\ Shows("warning")

\* the artifacts that hold a value
Stored ==
    {name \in {"implementation_plan", "competitive_analysis", "roi_data"} :
        Session[name] # None}

\* C11: at the end of every script run, every artifact that holds a value
\* (implementation_plan, roi_data, competitive_analysis) was produced by a
\* generation request whose action text is the stored selected_action.
C11_ArtifactsKeyedBySelection ==
    pc = "idle" =>
        \A name \in Stored : generated_for[name] = selected_action

\* C11 happens: all three artifacts were generated for the stored action,
\* and the run that just ended was an analysis whose response did not
\* parse, so results is empty while the artifacts remain
C11_Witness ==
    /\ pc = "idle"
    /\ outcome = "done"
    /\ results = None
    /\ Shows("warning")
    /\ selected_action.kind = "str"
    /\ Stored = {"implementation_plan", "competitive_analysis", "roi_data"}
    /\ \A name \in Stored : generated_for[name] = selected_action

====
